---- MODULE Spec2Model ----
(***************************************************************************)
(* Model of update_tfprovidertest.py: a script that reads tfprovidertest.go *)
(* in text mode, applies three re.sub substitutions to the text in memory,  *)
(* reopens the file with mode 'w', writes the text back and prints four     *)
(* status lines.                                                            *)
(*                                                                          *)
(* Text is a sequence of tokens.  A token is either a newline character     *)
(* (LF, CR), a filler character ("x"), or one of the literal pieces the     *)
(* script's patterns and replacements are made of (a pattern line, or the   *)
(* part of a line on one side of an edit point).  All three patterns are    *)
(* literal once their escapes are removed, no pattern piece occurs inside   *)
(* another piece, and no suffix of one pattern or replacement is a prefix   *)
(* of a pattern, so a match on characters is a match on tokens.             *)
(***************************************************************************)
EXTENDS Integers, Sequences, FiniteSets, TLC

(***************************************************************************)
(* Bounds                                                                   *)
(***************************************************************************)
MaxPieces == 3
MaxPiecesConc == 2
MaxRuns == 2

(***************************************************************************)
(* Characters and literal pieces                                            *)
(***************************************************************************)
LF == "LF"
CR == "CR"
Filler == "x"

\* '// isBaseClassFile checks if ...' / 'func isBaseClassFile(filePath string) bool {'
\* '\tbase := filepath.Base(filePath)' / '\treturn strings.HasPrefix(...)' / '}'
isBaseClassFileText == <<"bdoc", LF, "bsig", LF, "bbase", LF, "bret", LF, "bclose">>

\* the triple-quoted helper: newline, doc comment, newline, function text, newline
should_exclude_func == <<LF, "hdoc", LF, "hfunc", LF>>

\* '// T016: ...conventions' newline 'func parseTestFile(... filePath string'
sigHead == <<"sdoc", LF, "sopen">>
\* ') *TestFileInfo {'
sigTail == <<"sclose">>
\* ', customPatterns []string'
sigParam == <<"sparam">>

\* '\t\t// Check if ...matching' newline '\t\tif !isTestFunction(name, '
callHead == <<"ccomment", LF, "copen">>
\* ') {'
callTail == <<"cclose">>

(***************************************************************************)
(* Patterns: a sequence of segments, each the literal text it matches and   *)
(* the number of the capture group around it (0: not captured).             *)
(* Templates: a sequence of items, a group reference or literal text.       *)
(***************************************************************************)
Seg(g, toks) == [grp |-> g, toks |-> toks]
Ref(g) == [ref |-> g, lit |-> <<>>]
Lit(toks) == [ref |-> 0, lit |-> toks]

\* variant: the pattern also consumes the line after the closing brace
pattern_Greedy == <<Seg(1, isBaseClassFileText), Seg(0, <<LF, "sdoc">>)>>

pattern == <<Seg(1, isBaseClassFileText)>>

\* variant: the template lacks the group reference, the helper replaces the match
replacement_NoGroup == <<Lit(should_exclude_func)>>

\* variant: the helper is put in front of the matched function
replacement_HelperFirst == <<Lit(should_exclude_func), Ref(1)>>

replacement == <<Ref(1), Lit(should_exclude_func)>>

pattern2 == <<Seg(0, sigHead \o sigTail)>>
replacement2 == <<Lit(sigHead \o sigParam \o sigTail)>>

pattern3 == <<Seg(1, callHead), Seg(0, <<"nil">>), Seg(2, callTail)>>
replacement3 == <<Ref(1), Lit(<<"customPatterns">>), Ref(2)>>

RECURSIVE Literal(_)
\* the text a pattern matches
Literal(pat) ==
  IF pat = <<>> THEN <<>> ELSE Head(pat).toks \o Literal(Tail(pat))

RECURSIVE Group(_, _)
\* the text captured by group g of a match of pat
Group(pat, g) ==
  IF pat = <<>> THEN <<>>
  ELSE IF Head(pat).grp = g THEN Head(pat).toks
  ELSE Group(Tail(pat), g)

RECURSIVE Expand(_, _)
\* the replacement text of one match: group references filled in
Expand(tmpl, pat) ==
  IF tmpl = <<>> THEN <<>>
  ELSE (IF Head(tmpl).ref = 0 THEN Head(tmpl).lit ELSE Group(pat, Head(tmpl).ref))
       \o Expand(Tail(tmpl), pat)

MatchAt(lit, t, i) ==
  /\ i + Len(lit) - 1 <= Len(t)
  /\ SubSeq(t, i, i + Len(lit) - 1) = lit

RECURSIVE SubFrom(_, _, _, _)
SubFrom(lit, rep, t, i) ==
  IF i > Len(t) THEN <<>>
  ELSE IF MatchAt(lit, t, i) THEN rep \o SubFrom(lit, rep, t, i + Len(lit))
  ELSE <<t[i]>> \o SubFrom(lit, rep, t, i + 1)

\* re.sub(pat, tmpl, t): every non-overlapping match, leftmost first
ReSub(pat, tmpl, t) == SubFrom(Literal(pat), Expand(tmpl, pat), t, 1)

\* 1. Add shouldExcludeFile function after isBaseClassFile
Rule1(t) == ReSub(pattern, replacement, t)

\* 2. Update parseTestFile to accept customPatterns parameter
Rule2(t) == ReSub(pattern2, replacement2, t)

\* 3. Update the call to isTestFunction within parseTestFile
Rule3(t) == ReSub(pattern3, replacement3, t)

(***************************************************************************)
(* Text-mode file I/O                                                       *)
(***************************************************************************)
RECURSIVE UniversalNewlines(_)
\* open(..., 'r').read(): newline=None turns CR LF and a lone CR into LF
UniversalNewlines(b) ==
  IF b = <<>> THEN <<>>
  ELSE IF Head(b) = CR
       THEN IF Len(b) >= 2 /\ b[2] = LF
            THEN <<LF>> \o UniversalNewlines(Tail(Tail(b)))
            ELSE <<LF>> \o UniversalNewlines(Tail(b))
       ELSE <<Head(b)>> \o UniversalNewlines(Tail(b))

\* os.linesep of the platform the script's shebang line targets
Linesep == <<LF>>

RECURSIVE TranslateOut(_)
\* open(..., 'w').write(): newline=None writes each LF as os.linesep
TranslateOut(t) ==
  IF t = <<>> THEN <<>>
  ELSE (IF Head(t) = LF THEN Linesep ELSE <<Head(t)>>) \o TranslateOut(Tail(t))

\* a write of bytes b at offset 0 of a file holding f: nothing is cut off
Overlay(b, f) ==
  IF Len(b) >= Len(f) THEN b ELSE b \o SubSeq(f, Len(b) + 1, Len(f))

(***************************************************************************)
(* State                                                                    *)
(***************************************************************************)
VARIABLES
  exists,    \* tfprovidertest.go exists in the working directory
  file,      \* its bytes
  pc,        \* per invocation: the statement it is about to execute
  content,   \* per invocation: the variable `content`
  out,       \* per invocation: the lines printed to standard output
  hist,      \* per invocation: the values `content` has held, oldest first
  log,       \* per invocation: the steps completed, oldest first
  failedAt,  \* per invocation: the step that raised, or "none"
  onDisk,    \* per invocation: the bytes of the file when the run read it
  runs,      \* per invocation slot: how many runs have completed
  iolog,     \* the file operations of all invocations, oldest first
  exists0,   \* whether the file existed before the first run
  file0      \* the bytes of the file before the first run

vars == <<exists, file, pc, content, out, hist, log, failedAt, onDisk, runs,
          iolog, exists0, file0>>

Invocations == {1, 2}

(***************************************************************************)
(* Input files                                                              *)
(***************************************************************************)
Pieces == { isBaseClassFileText, sigHead \o sigTail,
            callHead \o <<"nil">> \o callTail,
            <<Filler>>, <<LF>>, <<CR>>, <<"sdoc", LF>> }

Eols == { <<LF>>, <<CR, LF>> }

RECURSIVE Flatten(_)
Flatten(ps) == IF ps = <<>> THEN <<>> ELSE Head(ps) \o Flatten(Tail(ps))

RECURSIVE WithEol(_, _)
\* the text t saved with line terminator eol
WithEol(t, eol) ==
  IF t = <<>> THEN <<>>
  ELSE (IF Head(t) = LF THEN eol ELSE <<Head(t)>>) \o WithEol(Tail(t), eol)

Files(n) ==
  { WithEol(Flatten(ps), eol) :
      ps \in UNION { [1..k -> Pieces] : k \in 0..n }, eol \in Eols }

InitRun ==
  /\ content = [p \in Invocations |-> <<>>]
  /\ out = [p \in Invocations |-> <<>>]
  /\ hist = [p \in Invocations |-> <<>>]
  /\ log = [p \in Invocations |-> <<>>]
  /\ failedAt = [p \in Invocations |-> "none"]
  /\ onDisk = [p \in Invocations |-> <<>>]
  /\ runs = [p \in Invocations |-> 0]
  /\ iolog = <<>>
  /\ exists0 = exists
  /\ file0 = file

\* one invocation at a time
Init ==
  /\ exists \in BOOLEAN
  /\ file \in (IF exists THEN Files(MaxPieces) ELSE {<<>>})
  /\ pc = [p \in Invocations |-> IF p = 1 THEN "read" ELSE "off"]
  /\ InitRun

\* two invocations started together
InitConc ==
  /\ exists = TRUE
  /\ file \in Files(MaxPiecesConc)
  /\ pc = [p \in Invocations |-> "read"]
  /\ InitRun

(***************************************************************************)
(* Steps of one invocation p                                                *)
(***************************************************************************)
Done(p, step, next) ==
  /\ pc' = [pc EXCEPT ![p] = next]
  /\ log' = [log EXCEPT ![p] = Append(@, step)]

Raise(p, step) ==
  /\ pc' = [pc EXCEPT ![p] = "failed"]
  /\ failedAt' = [failedAt EXCEPT ![p] = step]
  /\ UNCHANGED log

\* variant: a missing file is read as an empty text
ReadStep_MissingIsEmpty(p) ==
  /\ pc[p] = "read"
  /\ content' = [content EXCEPT ![p] = UniversalNewlines(file)]
  /\ hist' = [hist EXCEPT ![p] = <<UniversalNewlines(file)>>]
  /\ onDisk' = [onDisk EXCEPT ![p] = file]
  /\ iolog' = Append(iolog, <<p, "read">>)
  /\ Done(p, "read", "rule1")
  /\ UNCHANGED <<exists, file, out, failedAt, runs, exists0, file0>>

\* with open('tfprovidertest.go', 'r') as f: content = f.read()
ReadStep(p) ==
  /\ pc[p] = "read"
  /\ IF exists
     THEN /\ content' = [content EXCEPT ![p] = UniversalNewlines(file)]
          /\ hist' = [hist EXCEPT ![p] = <<UniversalNewlines(file)>>]
          /\ onDisk' = [onDisk EXCEPT ![p] = file]
          /\ iolog' = Append(iolog, <<p, "read">>)
          /\ Done(p, "read", "rule1")
          /\ UNCHANGED failedAt
     ELSE /\ Raise(p, "read")
          /\ UNCHANGED <<content, hist, onDisk, iolog>>
  /\ UNCHANGED <<exists, file, out, runs, exists0, file0>>

Assign(p, t, step, next) ==
  /\ content' = [content EXCEPT ![p] = t]
  /\ hist' = [hist EXCEPT ![p] = Append(@, t)]
  /\ Done(p, step, next)
  /\ UNCHANGED <<exists, file, out, failedAt, onDisk, runs, iolog, exists0, file0>>

\* content = re.sub(...): each rule reads and reassigns `content`
Rule1Step(p) ==
  /\ pc[p] = "rule1"
  /\ Assign(p, Rule1(content[p]), "rule1", "rule2")

\* variant: rule 2 is applied to the text as read, not to rule 1's result
Rule2Step_FromOriginal(p) ==
  /\ pc[p] = "rule2"
  /\ Assign(p, Rule2(hist[p][1]), "rule2", "rule3")

Rule2Step(p) ==
  /\ pc[p] = "rule2"
  /\ Assign(p, Rule2(content[p]), "rule2", "rule3")

\* variant: the status lines come before the write
Rule3Step_ReportFirst(p) ==
  /\ pc[p] = "rule3"
  /\ Assign(p, Rule3(content[p]), "rule3", "print1")

Rule3Step(p) ==
  /\ pc[p] = "rule3"
  /\ Assign(p, Rule3(content[p]), "rule3", "open")

\* variant: the file is opened for update ('r+') without being truncated
OpenStep_NoTruncate(p) ==
  /\ pc[p] = "open"
  /\ \/ /\ exists' = TRUE
        /\ iolog' = Append(iolog, <<p, "open">>)
        /\ Done(p, "open", "write")
        /\ UNCHANGED <<failedAt, file>>
     \/ /\ Raise(p, "open")
        /\ UNCHANGED <<exists, file, iolog>>
  /\ UNCHANGED <<content, out, hist, onDisk, runs, exists0, file0>>

\* open('tfprovidertest.go', 'w'): creates or truncates, or raises OSError
OpenStep(p) ==
  /\ pc[p] = "open"
  /\ \/ /\ exists' = TRUE
        /\ file' = <<>>
        /\ iolog' = Append(iolog, <<p, "open">>)
        /\ Done(p, "open", "write")
        /\ UNCHANGED failedAt
     \/ /\ Raise(p, "open")
        /\ UNCHANGED <<exists, file, iolog>>
  /\ UNCHANGED <<content, out, hist, onDisk, runs, exists0, file0>>

\* variant: the bytes are appended to whatever the file holds
WriteStep_Append(p) ==
  /\ pc[p] = "write"
  /\ LET bytes == TranslateOut(content[p]) IN
     \/ /\ file' = file \o bytes
        /\ iolog' = Append(iolog, <<p, "write">>)
        /\ Done(p, "write", "print1")
        /\ UNCHANGED failedAt
     \/ \E n \in 0..Len(bytes) :
          /\ file' = file \o SubSeq(bytes, 1, n)
          /\ Raise(p, "write")
          /\ UNCHANGED iolog
  /\ UNCHANGED <<exists, content, out, hist, onDisk, runs, exists0, file0>>

\* f.write(content) and the flush and close at the end of the with block
WriteStep(p) ==
  /\ pc[p] = "write"
  /\ LET bytes == TranslateOut(content[p]) IN
     \/ /\ file' = Overlay(bytes, file)
        /\ iolog' = Append(iolog, <<p, "write">>)
        /\ Done(p, "write", "print1")
        /\ UNCHANGED failedAt
     \/ \E n \in 0..Len(bytes) :
          /\ file' = Overlay(SubSeq(bytes, 1, n), file)
          /\ Raise(p, "write")
          /\ UNCHANGED iolog
  /\ UNCHANGED <<exists, content, out, hist, onDisk, runs, exists0, file0>>

Line1 == "Successfully updated tfprovidertest.go"
Line2 == "Added shouldExcludeFile function"
Line3 == "Updated parseTestFile signature to accept customPatterns"
Line4 == "Updated isTestFunction call to use customPatterns"

Emit(p, line, step, next) ==
  /\ out' = [out EXCEPT ![p] = Append(@, line)]
  /\ Done(p, step, next)
  /\ UNCHANGED <<exists, file, content, hist, failedAt, onDisk, iolog, exists0, file0>>

Report1Step(p) ==
  /\ pc[p] = "print1"
  /\ Emit(p, Line1, "print1", "print2")
  /\ UNCHANGED runs

\* variant: the line is printed only when rule 1 changed the text
Report2Step_OnlyIfFired(p) ==
  /\ pc[p] = "print2"
  /\ IF hist[p][2] # hist[p][1]
     THEN Emit(p, Line2, "print2", "print3")
     ELSE /\ Done(p, "print2", "print3")
          /\ UNCHANGED <<exists, file, content, out, hist, failedAt, onDisk,
                         iolog, exists0, file0>>
  /\ UNCHANGED runs

Report2Step(p) ==
  /\ pc[p] = "print2"
  /\ Emit(p, Line2, "print2", "print3")
  /\ UNCHANGED runs

Report3Step(p) ==
  /\ pc[p] = "print3"
  /\ Emit(p, Line3, "print3", "print4")
  /\ UNCHANGED runs

\* the last statement: the process exits with status 0
Report4Step(p) ==
  /\ pc[p] = "print4"
  /\ Emit(p, Line4, "print4", "done")
  /\ runs' = [runs EXCEPT ![p] = @ + 1]

\* the script is run again on the file the previous run left
Rerun(p) ==
  /\ pc[p] = "done"
  /\ runs[p] < MaxRuns
  /\ pc' = [pc EXCEPT ![p] = "read"]
  /\ content' = [content EXCEPT ![p] = <<>>]
  /\ out' = [out EXCEPT ![p] = <<>>]
  /\ hist' = [hist EXCEPT ![p] = <<>>]
  /\ log' = [log EXCEPT ![p] = <<>>]
  /\ iolog' = <<>>
  /\ UNCHANGED <<exists, file, failedAt, onDisk, runs, exists0, file0>>

Step(p) ==
  \/ ReadStep(p)
  \/ Rule1Step(p)
  \/ Rule2Step(p)
  \/ Rule3Step(p)
  \/ OpenStep(p)
  \/ WriteStep(p)
  \/ Report1Step(p)
  \/ Report2Step(p)
  \/ Report3Step(p)
  \/ Report4Step(p)

Next == \E p \in Invocations : Step(p) \/ Rerun(p)

NextConc == \E p \in Invocations : Step(p)

Spec == Init /\ [][Next]_vars

SpecConc == InitConc /\ [][NextConc]_vars

(***************************************************************************)
(* Properties                                                               *)
(***************************************************************************)
HasMatch(lit, t) == \E i \in 1..Len(t) : MatchAt(lit, t, i)

Occ(lit, t) == Cardinality({ i \in 1..Len(t) : MatchAt(lit, t, i) })

IsPrefix(a, b) == Len(a) <= Len(b) /\ SubSeq(b, 1, Len(a)) = a

Anchor1 == isBaseClassFileText
Anchor2 == sigHead \o sigTail
Anchor3 == callHead \o <<"nil">> \o callTail
NewSignature == sigHead \o sigParam \o sigTail
NewCall == callHead \o <<"customPatterns">> \o callTail
FourLines == <<Line1, Line2, Line3, Line4>>

\* C1: a run that completes leaves the file holding rule 3 applied to rule 2
\* applied to rule 1 applied to the text it read; each assignment of `content`
\* is the next rule applied to the previous value; and every match is replaced:
\* no old signature and no old call is left, every isBaseClassFile anchor of
\* the input is still there and is followed by the helper.
C1_RulesInOrder ==
  pc[1] = "done" =>
    /\ Len(hist[1]) = 4
    /\ hist[1][2] = Rule1(hist[1][1])
    /\ hist[1][3] = Rule2(hist[1][2])
    /\ hist[1][4] = Rule3(hist[1][3])
    /\ file = Rule3(Rule2(Rule1(hist[1][1])))
    /\ ~HasMatch(Anchor2, file)
    /\ ~HasMatch(Anchor3, file)
    /\ Occ(Anchor1, file) = Occ(Anchor1, hist[1][1])
    /\ Occ(Anchor1 \o should_exclude_func, file) = Occ(Anchor1, file)
    /\ Occ(NewSignature, file) = Occ(NewSignature, hist[1][1]) + Occ(Anchor2, hist[1][1])
    /\ Occ(NewCall, file) = Occ(NewCall, hist[1][1]) + Occ(Anchor3, hist[1][1])

\* a completed run whose input had one isBaseClassFile anchor and the other two
C1_Witness ==
  /\ pc[1] = "done"
  /\ Occ(Anchor1, hist[1][1]) = 1
  /\ HasMatch(Anchor2, hist[1][1])
  /\ HasMatch(Anchor3, hist[1][1])
  /\ file # hist[1][1]

\* C2: when the file on disk holds all three anchors, the run leaves (a) the
\* unchanged isBaseClassFile function with the whole helper right after its
\* closing brace, (b) the signature with the extra parameter in place of the
\* old one, (c) the call with customPatterns in place of nil.
C2_AllThreeEdits ==
  (/\ pc[1] = "done"
   /\ HasMatch(Anchor1, onDisk[1])
   /\ HasMatch(Anchor2, onDisk[1])
   /\ HasMatch(Anchor3, onDisk[1]))
  =>
    /\ HasMatch(Anchor1 \o should_exclude_func, file)
    /\ \A i \in 1..Len(file) :
         MatchAt(Anchor1, file, i) =>
           MatchAt(should_exclude_func, file, i + Len(Anchor1))
    /\ HasMatch(sigHead \o <<"sparam">> \o sigTail, file)
    /\ ~HasMatch(sigHead \o sigTail, file)
    /\ HasMatch(callHead \o <<"customPatterns">> \o callTail, file)
    /\ ~HasMatch(callHead \o <<"nil">> \o callTail, file)

C2_Witness ==
  /\ pc[1] = "done"
  /\ runs[1] = 1
  /\ HasMatch(Anchor1, onDisk[1])
  /\ HasMatch(Anchor2, onDisk[1])
  /\ HasMatch(Anchor3, onDisk[1])
  /\ HasMatch(Anchor1 \o should_exclude_func, file)

NoMatch(k, t) ==
  ~HasMatch(IF k = 1 THEN Anchor1 ELSE IF k = 2 THEN Anchor2 ELSE Anchor3, t)

\* C3: a rule whose anchor is absent from the text it receives passes that
\* text on unchanged; whichever rules fail to match, nothing raises, the file
\* is overwritten with the resulting text and all four lines are printed.
C3_SilentNoOp ==
  \A k \in 1..3 :
    /\ (Len(hist[1]) > k /\ NoMatch(k, hist[1][k])) => hist[1][k + 1] = hist[1][k]
    /\ (Len(hist[1]) > k /\ NoMatch(k, hist[1][1])) => hist[1][k + 1] = hist[1][k]
    /\ (Len(hist[1]) = 4 /\ NoMatch(k, hist[1][k]) /\ pc[1] = "done") =>
         /\ failedAt[1] = "none"
         /\ out[1] = FourLines
         /\ file = hist[1][4]
         /\ <<1, "write">> = iolog[Len(iolog)]

\* a completed run in which none of the three rules matched
C3_Witness ==
  /\ pc[1] = "done"
  /\ \A k \in 1..3 : NoMatch(k, hist[1][k])
  /\ hist[1][1] # <<>>
  /\ out[1] = FourLines

Patch(t) == Rule3(Rule2(Rule1(t)))

\* C4: the bytes on disk after a completed run are the bytes on disk before
\* it with only the anchor matches replaced, so that a file in which no rule
\* matches is byte-identical.
C4_BytesPreserved ==
  pc[1] = "done" => file = Patch(onDisk[1])

\* C5 as stated: a run that fails in the write step (the open or the write)
\* leaves the file as it was before the run.
C5_NeverTouched ==
  (pc[1] = "failed" /\ failedAt[1] \in {"open", "write"}) => file = onDisk[1]

\* C5 amended: a run that fails opening the file for writing leaves it as it
\* was; a run that fails after that open, in the write or the close, leaves a
\* prefix of the patched text, possibly empty, the original content being lost
\* at the open.
C5_TruncatedOnWriteFailure ==
  pc[1] = "failed" =>
    /\ failedAt[1] = "open" => (file = onDisk[1] /\ exists)
    /\ failedAt[1] = "write" => (IsPrefix(file, hist[1][4]) /\ exists)

\* a failed write that left neither the original nor the patched text
C5_Witness ==
  /\ pc[1] = "failed"
  /\ failedAt[1] = "write"
  /\ file # onDisk[1]
  /\ file # hist[1][4]
  /\ onDisk[1] # <<>>

\* C6: when the file does not exist the run raises at the read: no rule is
\* applied, the file is not created, nothing is printed.
C6_MissingFile ==
  ~exists0 =>
    /\ ~exists
    /\ pc[1] \in {"read", "failed"}
    /\ pc[1] = "failed" => failedAt[1] = "read"
    /\ hist[1] = <<>>
    /\ log[1] = <<>>
    /\ iolog = <<>>
    /\ out[1] = <<>>

C6_Witness ==
  /\ ~exists0
  /\ pc[1] = "failed"
  /\ failedAt[1] = "read"

Text0 == UniversalNewlines(file0)

\* C7: for an input with all three anchors, every run changes the file again:
\* in each run after the first, rule 1 matches and inserts one more helper per
\* isBaseClassFile anchor while rules 2 and 3 find nothing to replace; after n
\* runs the file holds n helpers per isBaseClassFile anchor of the input (n in
\* all for an input with one), and one new signature and one new call per
\* signature anchor and call anchor of the input.
C7_NotIdempotent ==
  (/\ pc[1] = "done"
   /\ HasMatch(Anchor1, Text0)
   /\ HasMatch(Anchor2, Text0)
   /\ HasMatch(Anchor3, Text0))
  =>
    /\ file # onDisk[1]
    /\ HasMatch(Anchor1, file)
    /\ Occ(<<"hfunc">>, file) = runs[1] * Occ(Anchor1, Text0)
    /\ Occ(Anchor1, Text0) = 1 => Occ(should_exclude_func, file) = runs[1]
    /\ Occ(NewSignature, file) = Occ(Anchor2, Text0)
    /\ Occ(NewCall, file) = Occ(Anchor3, Text0)
    /\ runs[1] >= 2 =>
         /\ hist[1][2] # hist[1][1]
         /\ hist[1][3] = hist[1][2]
         /\ hist[1][4] = hist[1][3]
         /\ Len(file) = Len(onDisk[1]) + Occ(Anchor1, Text0) * Len(should_exclude_func)

\* the second run on an input with one anchor of each kind has completed
C7_Witness ==
  /\ pc[1] = "done"
  /\ runs[1] = 2
  /\ Occ(Anchor1, Text0) = 1
  /\ Occ(Anchor2, Text0) = 1
  /\ Occ(Anchor3, Text0) = 1
  /\ Occ(<<"hfunc">>, file) = 2

StepOrder == << "read", "rule1", "rule2", "rule3", "open", "write",
                "print1", "print2", "print3", "print4" >>

IoOf(p) == SelectSeq(iolog, LAMBDA e : e[1] = p)

\* C8: the steps of a run are a prefix of read, rule 1, rule 2, rule 3, open
\* for writing, write, and the four lines in their fixed order: one read
\* before any write, the open for writing only after the third substitution,
\* and printing only after the write has completed.
C8_StrictOrder ==
  /\ IsPrefix(log[1], StepOrder)
  /\ IsPrefix(out[1], FourLines)
  /\ IsPrefix(IoOf(1), << <<1, "read">>, <<1, "open">>, <<1, "write">> >>)
  /\ Len(IoOf(1)) >= 2 => Len(hist[1]) = 4
  /\ out[1] # <<>> =>
       /\ Len(IoOf(1)) = 3
       /\ failedAt[1] = "none"
  /\ pc[1] = "done" => (log[1] = StepOrder /\ out[1] = FourLines)

C8_Witness ==
  /\ pc[1] = "done"
  /\ log[1] = StepOrder
  /\ out[1] = FourLines
  /\ file # onDisk[1]

BothDone == pc[1] = "done" /\ pc[2] = "done"

LastWriter == iolog[Len(iolog)][1]

\* C9 as stated: when both concurrent invocations have reported success, the
\* file holds the content computed by the one whose write came last.
C9_LastWriterWins ==
  BothDone =>
    /\ iolog[Len(iolog)][2] = "write"
    /\ file = content[LastWriter]
    /\ out[1] = FourLines
    /\ out[2] = FourLines

\* C9 amended: both invocations report success whatever the interleaving, and
\* the file then holds the content of the one whose write came last, unless
\* that one read the file while the other had it truncated and so wrote
\* nothing: its empty write removes nothing, and the file holds whatever the
\* other invocation's write left after the last truncating open (its content,
\* or nothing).
C9_LastWriterWinsUnlessEmpty ==
  BothDone =>
    /\ iolog[Len(iolog)][2] = "write"
    /\ out[1] = FourLines
    /\ out[2] = FourLines
    /\ failedAt[1] = "none" /\ failedAt[2] = "none"
    /\ content[LastWriter] # <<>> => file = content[LastWriter]
    /\ content[LastWriter] = <<>> => file \in {<<>>, content[3 - LastWriter]}

\* both have written with both files open at once, and the later write stands
C9_Witness ==
  /\ BothDone
  /\ iolog[Len(iolog) - 1][2] = "write"
  /\ iolog[Len(iolog)][2] = "write"
  /\ content[LastWriter] # <<>>
  /\ content[1] # content[2]
  /\ file = content[LastWriter]

\* C10: applied to any text the script has read, the three rules give the
\* same result in all six orders, and no rule changes the number of matches
\* of another rule's pattern.
C10_OrderIndependent ==
  pc[1] = "rule1" =>
    LET t == hist[1][1] IN
      /\ Rule3(Rule2(Rule1(t))) = Rule2(Rule3(Rule1(t)))
      /\ Rule3(Rule2(Rule1(t))) = Rule3(Rule1(Rule2(t)))
      /\ Rule3(Rule2(Rule1(t))) = Rule1(Rule3(Rule2(t)))
      /\ Rule3(Rule2(Rule1(t))) = Rule2(Rule1(Rule3(t)))
      /\ Rule3(Rule2(Rule1(t))) = Rule1(Rule2(Rule3(t)))
      /\ Occ(Anchor2, Rule1(t)) = Occ(Anchor2, t)
      /\ Occ(Anchor3, Rule1(t)) = Occ(Anchor3, t)
      /\ Occ(Anchor1, Rule2(t)) = Occ(Anchor1, t)
      /\ Occ(Anchor3, Rule2(t)) = Occ(Anchor3, t)
      /\ Occ(Anchor1, Rule3(t)) = Occ(Anchor1, t)
      /\ Occ(Anchor2, Rule3(t)) = Occ(Anchor2, t)

\* a text in which the helper is inserted on the line before a signature anchor
C10_Witness ==
  /\ Len(hist[1]) = 4
  /\ HasMatch(Anchor1 \o <<LF>> \o Anchor2, hist[1][1])
  /\ HasMatch(Anchor1 \o should_exclude_func \o <<LF>> \o NewSignature, hist[1][4])

====
